---- MODULE Spec2Model ----
(***************************************************************************)
(* Task time-tracking ledger, task lifecycle and assignee roster of the    *)
(* CRM server: one persisted Task document, the request handlers of        *)
(* TaskController that read it, mutate it and write it back, and the       *)
(* Mongoose pre('save') hooks that run on every document save.             *)
(***************************************************************************)
EXTENDS Integers, Sequences, FiniteSets, TLC

\* ---------------------------------------------------------------- bounds
MaxTime == 2        \* the clock runs over 0..MaxTime
MaxSessions == 1    \* closed + open sessions kept on one task
MaxHistory == 1     \* statusHistory entries kept on one task
MaxEntries == 2     \* timeTracking entries kept on one task
MaxBlockers == 1    \* progress.blockers entries kept on one task

\* ------------------------------------------------------------- constants
Users == {"u1", "u2"}
NULL == -1          \* a Date field holding null

PENDING == "pending"
IN_PROGRESS == "in_progress"
COMPLETED == "completed"
CANCELLED == "cancelled"
OVERDUE == "overdue"
TASK_STATUS == {PENDING, IN_PROGRESS, COMPLETED, CANCELLED, OVERDUE}

Manager == "pm"     \* the project manager who creates the task
\* req.user.role: the assignable users are employees
Role(reqUser) == IF reqUser = Manager THEN "project_manager" ELSE "employee"
AddRoles == {"reviewer"}
Phases == {"testing"}
Percentages == {50, 150}
Notes == {""}
ABSENT == "absent"  \* a key the request body does not carry

VARIABLES
  task,         \* the persisted Task document
  now,          \* new Date()
  last,         \* the step just taken: handler, user it was about, outcome
  tasks,        \* the Task collection calculateEmployeeOfTheMonth reads
  results,      \* what calculateEmployeeOfTheMonth last returned
  performance,  \* a Performance document
  performances, \* the Performance collection
  requests      \* the requests in flight: what each has read, where it is

vars == <<task, now, last, tasks, results, performance, performances, requests>>

\* the task routes touch neither the collection read for the ranking nor the
\* Performance document
\* null where a document is expected
NONE == [none |-> TRUE]
reports == <<tasks, results, performance, performances>>
NoReports == tasks = <<>> /\ results = NONE /\ performance = NONE /\ performances = <<>>
\* no request is in flight
NoRequests == requests = <<>>

\* ------------------------------------------------------- array helpers
RECURSIVE SumDurations(_)
SumDurations(sessions) ==
  IF sessions = <<>> THEN 0
  ELSE sessions[1].duration + SumDurations(Tail(sessions))

RECURSIVE FilterOut(_, _)
\* arr.filter(x => x.user.toString() !== userId.toString())
FilterOut(arr, userId) ==
  IF arr = <<>> THEN <<>>
  ELSE IF arr[1].user = userId THEN FilterOut(Tail(arr), userId)
       ELSE <<arr[1]>> \o FilterOut(Tail(arr), userId)

\* arr.find(x => x.user.toString() === userId.toString()): index of the
\* first match, 0 when find returns undefined
FindIndex(arr, userId) ==
  IF \E i \in 1..Len(arr) : arr[i].user = userId
  THEN CHOOSE i \in 1..Len(arr) :
         /\ arr[i].user = userId
         /\ \A j \in 1..(i - 1) : arr[j].user # userId
  ELSE 0

\* the user's ledger entry, as find returns it
HasEntry(doc, userId) == FindIndex(doc.timeTracking, userId) # 0
EntryOf(doc, userId) == doc.timeTracking[FindIndex(doc.timeTracking, userId)]

IsAssigned(doc, userId) == \E i \in 1..Len(doc.assignedTo) : doc.assignedTo[i].user = userId

\* the sub-document Mongoose casts from the plain object pushed by
\* startTimeTracking and addAssignee
FreshEntry(userId) ==
  [user |-> userId, totalTimeSpent |-> 0, sessions |-> <<>>,
   isActive |-> FALSE, currentSessionStart |-> NULL]

\* ------------------------------------------------------ pre('save') hooks
\* first hook: status history and completion date (startDate, which the
\* hook also stamps on the first in_progress, is not part of the model's
\* document)
PreSaveStatusHistory(doc, statusModified, t) ==
  IF ~statusModified THEN doc
  ELSE LET d1 == [doc EXCEPT !.statusHistory = Append(@, doc.status)]
           \* this.timeTracking is an array: this.timeTracking.isActive is
           \* undefined, so the hook never stops a session
           d2 == IF d1.status = COMPLETED THEN [d1 EXCEPT !.completedDate = t] ELSE d1
       IN d2

\* the overdue hook without its test for a completed task
PreSaveOverdue_NoCompletedTest(doc, t) ==
  IF /\ doc.dueDate # NULL
     /\ t > doc.dueDate
     /\ doc.status # CANCELLED
     /\ doc.status # OVERDUE
  THEN [doc EXCEPT !.status = OVERDUE]
  ELSE doc

\* second hook: overdue recomputation
PreSaveOverdue(doc, t) ==
  IF /\ doc.dueDate # NULL
     /\ t > doc.dueDate
     /\ doc.status # COMPLETED
     /\ doc.status # CANCELLED
     /\ doc.status # OVERDUE
  THEN [doc EXCEPT !.status = OVERDUE]
  ELSE doc

\* doc.save(): both hooks in registration order, then the write.  saved is
\* the document as last read or written, against which isModified('status')
\* is decided.
Save(doc, saved, t) ==
  PreSaveOverdue(PreSaveStatusHistory(doc, doc.status # saved.status, t), t)

\* A method's outcome: the in-memory document, the document as persisted so
\* far, and the error thrown ("ok" when it returned).
Outcome(doc, saved, err) == [doc |-> doc, saved |-> saved, err |-> err]
Saved(doc, saved, t) == LET d == Save(doc, saved, t) IN Outcome(d, d, "ok")

\* ------------------------------------------------------ instance methods
\* the status set to in progress whatever it was
Promote_NoPendingTest(doc) == [doc EXCEPT !.status = IN_PROGRESS]

Promote(doc) == IF doc.status = PENDING THEN [doc EXCEPT !.status = IN_PROGRESS] ELSE doc

startTimeTracking(doc, saved, userId, t) ==
  IF ~IsAssigned(doc, userId) THEN Outcome(doc, saved, "not_assigned")
  ELSE LET idx == FindIndex(doc.timeTracking, userId)
       IN IF idx = 0
          THEN \* the plain object is pushed, Mongoose casts it to a new
               \* sub-document, and userTimeTracking keeps naming the plain
               \* object: the writes of isActive and currentSessionStart
               \* that follow do not reach the document
               Saved(Promote([doc EXCEPT !.timeTracking = Append(@, FreshEntry(userId))]),
                     saved, t)
          ELSE IF doc.timeTracking[idx].isActive
          THEN Outcome(doc, saved, "already_active")
          ELSE Saved(Promote([doc EXCEPT !.timeTracking[idx].isActive = TRUE,
                                         !.timeTracking[idx].currentSessionStart = t]),
                     saved, t)

\* stopTimeTracking without "totalTimeSpent += duration"
stopTimeTracking_NoTotal(doc, saved, userId, notes, t) ==
  LET idx == FindIndex(doc.timeTracking, userId)
  IN IF idx = 0 THEN Outcome(doc, saved, "no_entry")
     ELSE IF ~doc.timeTracking[idx].isActive THEN Outcome(doc, saved, "no_active_session")
     ELSE LET startTime == doc.timeTracking[idx].currentSessionStart
              session == [startTime |-> startTime, endTime |-> t,
                          duration |-> t - startTime, notes |-> notes]
          IN Saved([doc EXCEPT !.timeTracking[idx].sessions = Append(@, session),
                               !.timeTracking[idx].isActive = FALSE,
                               !.timeTracking[idx].currentSessionStart = NULL],
                   saved, t)

\* stopTimeTracking without its test of isActive
stopTimeTracking_NoActiveTest(doc, saved, userId, notes, t) ==
  LET idx == FindIndex(doc.timeTracking, userId)
  IN IF idx = 0 THEN Outcome(doc, saved, "no_entry")
     ELSE LET startTime == doc.timeTracking[idx].currentSessionStart
              duration == t - startTime
              session == [startTime |-> startTime, endTime |-> t,
                          duration |-> duration, notes |-> notes]
          IN Saved([doc EXCEPT !.timeTracking[idx].sessions = Append(@, session),
                               !.timeTracking[idx].totalTimeSpent = @ + duration,
                               !.timeTracking[idx].isActive = FALSE,
                               !.timeTracking[idx].currentSessionStart = NULL],
                   saved, t)

stopTimeTracking(doc, saved, userId, notes, t) ==
  LET idx == FindIndex(doc.timeTracking, userId)
  IN IF idx = 0 THEN Outcome(doc, saved, "no_entry")
     ELSE IF ~doc.timeTracking[idx].isActive THEN Outcome(doc, saved, "no_active_session")
     ELSE LET startTime == doc.timeTracking[idx].currentSessionStart
              duration == t - startTime
              session == [startTime |-> startTime, endTime |-> t,
                          duration |-> duration, notes |-> notes]
          IN Saved([doc EXCEPT !.timeTracking[idx].sessions = Append(@, session),
                               !.timeTracking[idx].totalTimeSpent = @ + duration,
                               !.timeTracking[idx].isActive = FALSE,
                               !.timeTracking[idx].currentSessionStart = NULL],
                   saved, t)

RECURSIVE StopAllActive(_, _, _)
\* for (const tt of this.timeTracking) if (tt.isActive) await
\* this.stopTimeTracking(tt.user, 'Task completed'), from index i on; a
\* throw ends the loop and the method
StopAllActive(o, i, t) ==
  IF o.err # "ok" \/ i > Len(o.doc.timeTracking) THEN o
  ELSE IF o.doc.timeTracking[i].isActive
       THEN StopAllActive(stopTimeTracking(o.doc, o.saved, o.doc.timeTracking[i].user,
                                           "Task completed", t), i + 1, t)
       ELSE StopAllActive(o, i + 1, t)

markAsCompleted(doc, saved, userId, t) ==
  LET d == [doc EXCEPT !.status = COMPLETED,
                       !.completedDate = t,
                       !.progress = [currentPhase |-> "completed", percentage |-> 100]]
      o == StopAllActive(Outcome(d, saved, "ok"), 1, t)
  IN IF o.err # "ok" THEN o ELSE Saved(o.doc, o.saved, t)

\* addAssignee without the test for a user who is already assigned
addAssignee_NoAssignedTest(doc, saved, userId, role, t) ==
  Saved([doc EXCEPT !.assignedTo = Append(@, [user |-> userId, role |-> role]),
                    !.timeTracking = Append(@, FreshEntry(userId))],
        saved, t)

\* addAssignee without the push of the ledger entry
addAssignee_NoLedgerEntry(doc, saved, userId, role, t) ==
  IF IsAssigned(doc, userId) THEN Outcome(doc, saved, "already_assigned")
  ELSE Saved([doc EXCEPT !.assignedTo = Append(@, [user |-> userId, role |-> role])],
             saved, t)

addAssignee(doc, saved, userId, role, t) ==
  IF IsAssigned(doc, userId) THEN Outcome(doc, saved, "already_assigned")
  ELSE Saved([doc EXCEPT !.assignedTo = Append(@, [user |-> userId, role |-> role]),
                         !.timeTracking = Append(@, FreshEntry(userId))],
             saved, t)

\* removeAssignee without the filter of the ledger
removeAssignee_KeepsLedger(doc, saved, userId, t) ==
  IF Len(doc.assignedTo) <= 1 THEN Outcome(doc, saved, "last_assignee")
  ELSE Saved([doc EXCEPT !.assignedTo = FilterOut(@, userId)], saved, t)

\* removeAssignee whose guard reads "< 1"
removeAssignee_OffByOne(doc, saved, userId, t) ==
  IF Len(doc.assignedTo) < 1 THEN Outcome(doc, saved, "last_assignee")
  ELSE Saved([doc EXCEPT !.assignedTo = FilterOut(@, userId),
                         !.timeTracking = FilterOut(@, userId)],
             saved, t)

removeAssignee(doc, saved, userId, t) ==
  IF Len(doc.assignedTo) <= 1 THEN Outcome(doc, saved, "last_assignee")
  ELSE LET idx == FindIndex(doc.timeTracking, userId)
           o == IF idx # 0 /\ doc.timeTracking[idx].isActive
                THEN stopTimeTracking(doc, saved, userId, "Removed from task", t)
                ELSE Outcome(doc, saved, "ok")
       IN IF o.err # "ok" THEN o
          ELSE Saved([o.doc EXCEPT !.assignedTo = FilterOut(@, userId),
                                   !.timeTracking = FilterOut(@, userId)],
                     o.saved, t)

Clamp(percentage) ==
  IF percentage > 100 THEN 100 ELSE IF percentage < 0 THEN 0 ELSE percentage

updateProgress(doc, saved, percentage, phase, userId, t) ==
  LET d == [doc EXCEPT !.progress.percentage = Clamp(percentage)]
  IN Saved(IF phase # ABSENT THEN [d EXCEPT !.progress.currentPhase = phase] ELSE d,
           saved, t)

addComment(doc, saved, userId, t) == Saved(doc, saved, t)

\* reportedAt and resolvedAt, stamps no method reads, are not part of the
\* model's blocker
addBlocker(doc, saved, description, severity, userId, t) ==
  Saved([doc EXCEPT !.blockers =
           Append(@, [description |-> description, severity |-> severity,
                      reportedBy |-> userId, resolved |-> FALSE])],
        saved, t)

\* blockerId is the position of the blocker; blockers.id() of any other id
\* is null and the task is saved as it is
resolveBlocker(doc, saved, blockerId, t) ==
  Saved(IF blockerId \in 1..Len(doc.blockers)
        THEN [doc EXCEPT !.blockers[blockerId].resolved = TRUE]
        ELSE doc,
        saved, t)

\* ------------------------------------------------------------------ Init
\* The rosters createTask can build: the distinct, active users of the
\* request body in order, the first one primary, the others collaborators.
RECURSIVE Rosters(_)
Rosters(n) ==
  IF n = 0 THEN {<<>>}
  ELSE LET shorter == Rosters(n - 1)
       IN shorter \cup
          {Append(r, [user |-> u, role |-> IF r = <<>> THEN "primary" ELSE "collaborator"]) :
             <<r, u>> \in {x \in shorter \X Users :
                             /\ Len(x[1]) = n - 1
                             /\ \A i \in 1..Len(x[1]) : x[1][i].user # x[2]}}

\* new Task(taskData), saved by createTask: validateTaskCreation admits a
\* dueDate in the future only, every other field takes its schema default
NewTask(assignees, assignedBy, dueDate) ==
  [assignedTo |-> assignees,
   assignedBy |-> assignedBy,
   status |-> PENDING,
   progress |-> [currentPhase |-> "planning", percentage |-> 0],
   blockers |-> <<>>,      \* progress.blockers, kept beside progress
   dueDate |-> dueDate,
   completedDate |-> NULL,
   timeTracking |-> <<>>,
   statusHistory |-> <<>>]

Init ==
  /\ now = 0
  /\ \E assignees \in Rosters(Cardinality(Users)) :
       \* the users are interchangeable: "u1" is the first assignee
       /\ assignees # <<>> /\ assignees[1].user = "u1"
       /\ task = NewTask(assignees, Manager, now + 1)
       /\ last = [op |-> "create", user |-> Manager, res |-> "ok"]
  /\ NoReports
  /\ NoRequests

\* a task created for one assignee
InitSolo == Init /\ Len(task.assignedTo) = 1

\* ------------------------------------------------------ request handlers
OpenOrClosed(doc) ==
  LET n(i) == Len(doc.timeTracking[i].sessions) + (IF doc.timeTracking[i].isActive THEN 1 ELSE 0)
      sum[i \in 0..Len(doc.timeTracking)] == IF i = 0 THEN 0 ELSE sum[i - 1] + n(i)
  IN sum[Len(doc.timeTracking)]

Answer(op, userId, o) ==
  /\ task' = o.saved
  /\ last' = [op |-> op, user |-> userId, res |-> o.err]
  /\ UNCHANGED <<now, reports, requests>>

Refuse(op, userId, why) ==
  /\ last' = [op |-> op, user |-> userId, res |-> why]
  /\ UNCHANGED <<task, now, reports, requests>>

\* admin, project manager, or the user who created the task
MayManage(doc, reqUser) ==
  Role(reqUser) \in {"admin", "project_manager"} \/ doc.assignedBy = reqUser

StartTask(reqUser) ==
  \* the bounds stop the calls that would open one more session or push
  \* one more history entry, never a call that fails
  /\ \/ OpenOrClosed(task) < MaxSessions
     \/ startTimeTracking(task, task, reqUser, now).err # "ok"
  /\ Len(task.statusHistory) < MaxHistory \/ task.status # PENDING
  /\ IF ~IsAssigned(task, reqUser)
     THEN Refuse("start", reqUser, "forbidden")
     ELSE Answer("start", reqUser, startTimeTracking(task, task, reqUser, now))

StopTask(reqUser, notes) ==
  IF ~IsAssigned(task, reqUser)
  THEN Refuse("stop", reqUser, "forbidden")
  ELSE Answer("stop", reqUser, stopTimeTracking(task, task, reqUser, notes, now))

CompleteTask(reqUser) ==
  /\ Len(task.statusHistory) < MaxHistory \/ task.status = COMPLETED
  /\ IF ~IsAssigned(task, reqUser)
     THEN Refuse("complete", reqUser, "forbidden")
     ELSE Answer("complete", reqUser, markAsCompleted(task, task, reqUser, now))

\* const { userId, role = 'collaborator' } = req.body
RoleOrDefault(role) == IF role = ABSENT THEN "collaborator" ELSE role

AddAssignee(reqUser, userId, as) ==
  /\ Len(task.timeTracking) < MaxEntries \/ IsAssigned(task, userId)
  /\ IF ~MayManage(task, reqUser)
     THEN Refuse("add", userId, "forbidden")
     ELSE Answer("add", userId, addAssignee(task, task, userId, RoleOrDefault(as), now))

RemoveAssignee(reqUser, userId) ==
  IF ~MayManage(task, reqUser)
  THEN Refuse("remove", userId, "forbidden")
  ELSE Answer("remove", userId, removeAssignee(task, task, userId, now))

UpdateProgress(reqUser, percentage, phase) ==
  IF ~IsAssigned(task, reqUser) /\ Role(reqUser) = "employee"
  THEN Refuse("progress", reqUser, "forbidden")
  ELSE Answer("progress", reqUser, updateProgress(task, task, percentage, phase, reqUser, now))

AddComment(reqUser) ==
  IF ~IsAssigned(task, reqUser) /\ Role(reqUser) = "employee"
  THEN Refuse("comment", reqUser, "forbidden")
  ELSE Answer("comment", reqUser, addComment(task, task, reqUser, now))

AddBlocker(reqUser, description, severity) ==
  /\ Len(task.blockers) < MaxBlockers
  /\ IF ~IsAssigned(task, reqUser) /\ Role(reqUser) = "employee"
     THEN Refuse("blocker", reqUser, "forbidden")
     ELSE Answer("blocker", reqUser,
                 addBlocker(task, task, description, severity, reqUser, now))

\* validateObjectId('blockerId'), then resolveBlocker
ResolveBlocker(reqUser, blockerId) ==
  /\ blockerId \in 1..MaxBlockers
  /\ Answer("resolve", reqUser, resolveBlocker(task, task, blockerId, now))

\* Task.findByIdAndUpdate(id, {...sanitizedData}): the body's keys are
\* written to the stored document as they are, no save hook runs.  Of the
\* keys validateTaskUpdate admits the body carries status, dueDate and
\* assignedTo; the only assignedTo that passes both the validator (an id per
\* element) and the schema (a sub-document per element) is the empty array.
findByIdAndUpdate(doc, body) ==
  LET d1 == IF body.status # ABSENT THEN [doc EXCEPT !.status = body.status] ELSE doc
      d2 == IF body.dueDate # NULL THEN [d1 EXCEPT !.dueDate = body.dueDate] ELSE d1
  IN IF body.assignedTo # ABSENT THEN [d2 EXCEPT !.assignedTo = <<>>] ELSE d2

\* request bodies of one key each; a body of several keys writes what a
\* sequence of these writes
StatusBodies == {[status |-> s, dueDate |-> NULL, assignedTo |-> ABSENT] : s \in TASK_STATUS}
DueDateBodies ==
  {[status |-> ABSENT, dueDate |-> d, assignedTo |-> ABSENT] : d \in {0, MaxTime + 1}}
RosterBodies == {[status |-> ABSENT, dueDate |-> NULL, assignedTo |-> "empty"]}

UpdateTask(reqUser, body) ==
  IF Role(reqUser) = "employee" /\ ~IsAssigned(task, reqUser)
  THEN Refuse("update", reqUser, "forbidden")
  ELSE IF Role(reqUser) = "employee" /\ (body.dueDate # NULL \/ body.assignedTo # ABSENT)
  THEN Refuse("update", reqUser, "forbidden")
  ELSE Answer("update", reqUser,
              LET d == findByIdAndUpdate(task, body) IN Outcome(d, d, "ok"))

\* the status code a task handler answers with, given what the handler did:
\* 200 after the method returned, 403 from the permission checks, 400 where
\* the catch block finds its phrase in error.message ('already active' in
\* startTask, 'No active time tracking' in stopTask), 500 for every other
\* error thrown
HTTP_STATUS ==
  [OK |-> 200, BAD_REQUEST |-> 400, FORBIDDEN |-> 403, NOT_FOUND |-> 404,
   INTERNAL_SERVER_ERROR |-> 500]
StatusCode(op, res) ==
  IF res = "ok" THEN HTTP_STATUS.OK
  ELSE IF res = "forbidden" THEN HTTP_STATUS.FORBIDDEN
  ELSE IF op = "start" /\ res = "already_active" THEN HTTP_STATUS.BAD_REQUEST
  ELSE IF op = "stop" /\ res = "no_active_session" THEN HTTP_STATUS.BAD_REQUEST
  ELSE HTTP_STATUS.INTERNAL_SERVER_ERROR

\* time passes between requests
Tick ==
  /\ now < MaxTime
  /\ now' = now + 1
  /\ last' = [op |-> "tick", user |-> Manager, res |-> "ok"]
  /\ UNCHANGED <<task, reports, requests>>

\* each route, asked for by the requesters reqs
Start(reqs) == \E u \in reqs : StartTask(u)
Stop(reqs) == \E u \in reqs, notes \in Notes : StopTask(u, notes)
Complete(reqs) == \E u \in reqs : CompleteTask(u)
Add(reqs) == \E u \in reqs, userId \in Users, as \in AddRoles : AddAssignee(u, userId, as)
AddAs(reqs, roles) == \E u \in reqs, userId \in Users, as \in roles : AddAssignee(u, userId, as)
Remove(reqs) == \E u \in reqs, userId \in Users : RemoveAssignee(u, userId)
Progress(reqs) ==
  \E u \in reqs, percentage \in Percentages, phase \in Phases \cup {ABSENT} :
    UpdateProgress(u, percentage, phase)
AddUser(reqs, userIds) ==
  \E u \in reqs, userId \in userIds, as \in AddRoles : AddAssignee(u, userId, as)
RemoveUser(reqs, userIds) == \E u \in reqs, userId \in userIds : RemoveAssignee(u, userId)
ProgressTo(reqs, percentages) ==
  \E u \in reqs, percentage \in percentages : UpdateProgress(u, percentage, ABSENT)
Comment(reqs) == \E u \in reqs : AddComment(u)
Update(reqs, bodies) == \E u \in reqs, body \in bodies : UpdateTask(u, body)
Blocker(reqs) == \E u \in reqs : AddBlocker(u, "", "high")
Resolve(reqs) == \E u \in reqs, blockerId \in 1..MaxBlockers : ResolveBlocker(u, blockerId)

\* time tracking and roster: the employees track time, the manager changes
\* the roster
Next ==
  \/ Start(Users)
  \/ Stop(Users)
  \/ Complete(Users)
  \/ Add({Manager})
  \/ Remove({Manager})
  \/ Tick
Spec == Init /\ [][Next]_vars

\* status life cycle of a task with one assignee: the assignee tracks time,
\* completes, comments (a plain save) and updates the status, the manager
\* updates the dueDate
NextLifecycle ==
  \/ Start({"u1"})
  \/ Stop({"u1"})
  \/ Complete({"u1"})
  \/ Comment({"u1"})
  \/ Update({"u1"}, StatusBodies)
  \/ Update({Manager}, DueDateBodies)
  \/ Tick
SpecLifecycle == InitSolo /\ [][NextLifecycle]_vars

\* roster: every handler the claim about the roster names
NextRoster ==
  \/ Start(Users)
  \/ Stop(Users)
  \/ Complete(Users)
  \/ Add({Manager})
  \/ Remove({Manager})
  \/ Progress({Manager})
  \/ Update({Manager}, RosterBodies)
  \/ Tick
SpecRoster == Init /\ [][NextRoster]_vars

\* assignment: the manager adds assignees with a role or with none in the
\* request body, and removes them, while the employees track time
BodyRoles == {ABSENT, "reviewer"}
NextAssign ==
  \/ Start(Users)
  \/ Stop(Users)
  \/ AddAs({Manager}, BodyRoles)
  \/ Remove({Manager})
  \/ Tick
SpecAssign == Init /\ [][NextAssign]_vars

\* every handler that saves the task through its methods, none that writes
\* the status field from a request body, on a task created for one assignee:
\* the assignee tracks time, completes and reports blockers, the manager
\* adds and removes a second assignee and changes the progress
NextMethods ==
  \/ Start({"u1"})
  \/ Stop({"u1"})
  \/ Complete({"u1"})
  \/ AddUser({Manager}, {"u2"})
  \/ RemoveUser({Manager}, {"u2"})
  \/ ProgressTo({Manager}, {50})
  \/ Blocker({"u1"})
  \/ Resolve({"u1"})
  \/ Tick
SpecMethods == InitSolo /\ [][NextMethods]_vars

\* ------------------------------------------------- employee of the month
MaxTasks == 2       \* Task documents in the collection

Employees == Users \cup {"u3", "u4", "u5", "u6"}
HOUR == 3600000     \* 1000 * 60 * 60 milliseconds
TOP == 5            \* rankings.slice(0, 5)

\* Math.round(n / d) for n >= 0 and d > 0: halves go up
RoundDiv(n, d) == (2 * n + d) \div (2 * d)

\* arr.slice(from, to)
Slice(arr, from, to) == SubSeq(arr, from + 1, IF to < Len(arr) THEN to ELSE Len(arr))

\* this.find({createdAt: {$gte, $lte}, status: {$in: [completed, in_progress]}})
Find(coll, startDate, endDate) ==
  SelectSeq(coll, LAMBDA tk : /\ tk.createdAt >= startDate
                             /\ tk.createdAt <= endDate
                             /\ tk.status \in {COMPLETED, IN_PROGRESS})

\* employeeScores[userId] = {...}
NewScore(userId) ==
  [user |-> userId, totalScore |-> 0, tasksCompleted |-> 0, tasksInProgress |-> 0,
   totalTimeSpent |-> 0, onTimeCompletions |-> 0, overdueCompletions |-> 0,
   averageProgress |-> 0, progressCount |-> 0]

\* the body of the inner loop: what one task adds to one assignee's score
ScorePair(score, tk, userId) ==
  LET idx == FindIndex(tk.timeTracking, userId)
      tracked == IF idx # 0 THEN tk.timeTracking[idx].totalTimeSpent ELSE 0
      s1 == [score EXCEPT !.totalTimeSpent = @ + tracked]
      onTime == /\ tk.completedDate # NULL
                /\ tk.dueDate # NULL
                /\ tk.completedDate <= tk.dueDate
      \* task.estimatedHours && userTimeTracking, then
      \* totalTimeSpent / HOUR < estimatedHours
      efficient == /\ tk.estimatedHours # NULL
                   /\ tk.estimatedHours # 0
                   /\ idx # 0
                   /\ tracked < tk.estimatedHours * HOUR
      s2 == IF tk.status = COMPLETED
            THEN [s1 EXCEPT !.tasksCompleted = @ + 1,
                            !.totalScore = @ + 50 + (IF onTime THEN 30 ELSE 10)
                                             + (IF efficient THEN 20 ELSE 0),
                            !.onTimeCompletions = @ + (IF onTime THEN 1 ELSE 0),
                            !.overdueCompletions = @ + (IF onTime THEN 0 ELSE 1)]
            ELSE IF tk.status = IN_PROGRESS
            THEN [s1 EXCEPT !.tasksInProgress = @ + 1, !.totalScore = @ + 10]
            ELSE s1
  IN IF tk.progress.percentage > 0
     THEN [s2 EXCEPT !.averageProgress = @ + tk.progress.percentage,
                     !.progressCount = @ + 1,
                     !.totalScore = @ + RoundDiv(tk.progress.percentage, 10)]
     ELSE s2

\* employeeScores is an object keyed by the user id: Object.values walks it
\* in the order the keys were first written, so it is a sequence here
RECURSIVE ScanAssignees(_, _, _)
ScanAssignees(employeeScores, tk, i) ==
  IF i > Len(tk.assignedTo) THEN employeeScores
  ELSE LET userId == tk.assignedTo[i].user
           scores == IF FindIndex(employeeScores, userId) = 0
                     THEN Append(employeeScores, NewScore(userId))
                     ELSE employeeScores
           k == FindIndex(scores, userId)
       IN ScanAssignees([scores EXCEPT ![k] = ScorePair(@, tk, userId)], tk, i + 1)

RECURSIVE ScanTasks(_, _)
ScanTasks(employeeScores, found) ==
  IF found = <<>> THEN employeeScores
  ELSE ScanTasks(ScanAssignees(employeeScores, found[1], 1), Tail(found))

\* the .map step; totalHoursWorked is kept in tenths of an hour
Finalise(score) ==
  LET totalTasks == score.tasksCompleted + score.tasksInProgress
  IN [user |-> score.user,
      totalScore |-> score.totalScore,
      tasksCompleted |-> score.tasksCompleted,
      tasksInProgress |-> score.tasksInProgress,
      totalTimeSpent |-> score.totalTimeSpent,
      onTimeCompletions |-> score.onTimeCompletions,
      overdueCompletions |-> score.overdueCompletions,
      progressCount |-> score.progressCount,
      averageProgress |-> IF score.progressCount > 0
                          THEN RoundDiv(score.averageProgress, score.progressCount)
                          ELSE 0,
      completionRate |-> IF totalTasks > 0
                         THEN RoundDiv(score.tasksCompleted * 100, totalTasks)
                         ELSE 0,
      onTimeRate |-> IF score.tasksCompleted > 0
                     THEN RoundDiv(score.onTimeCompletions * 100, score.tasksCompleted)
                     ELSE 0,
      totalHoursWorked |-> RoundDiv(score.totalTimeSpent * 10, HOUR)]

\* a sort that puts an element before the elements of equal score
RECURSIVE InsertByScore_BeforeEqual(_, _)
InsertByScore_BeforeEqual(sorted, x) ==
  IF sorted = <<>> THEN <<x>>
  ELSE IF sorted[1].totalScore > x.totalScore
       THEN <<sorted[1]>> \o InsertByScore_BeforeEqual(Tail(sorted), x)
       ELSE <<x>> \o sorted

\* .sort((a, b) => b.totalScore - a.totalScore): Array.prototype.sort is
\* stable, an element goes behind the elements of equal score before it
RECURSIVE InsertByScore(_, _)
InsertByScore(sorted, x) ==
  IF sorted = <<>> THEN <<x>>
  ELSE IF sorted[1].totalScore >= x.totalScore
       THEN <<sorted[1]>> \o InsertByScore(Tail(sorted), x)
       ELSE <<x>> \o sorted

RECURSIVE SortByScore(_)
SortByScore(arr) ==
  IF arr = <<>> THEN <<>>
  ELSE InsertByScore(SortByScore(SubSeq(arr, 1, Len(arr) - 1)), arr[Len(arr)])

\* the ranking without ".filter(score => score.tasksCompleted > 0)"
Rank_NoFilter(employeeScores) ==
  SortByScore([i \in 1..Len(employeeScores) |-> Finalise(employeeScores[i])])

\* Object.values(employeeScores).map(...).filter(...).sort(...)
Rank(employeeScores) ==
  SortByScore(SelectSeq([i \in 1..Len(employeeScores) |-> Finalise(employeeScores[i])],
                        LAMBDA score : score.tasksCompleted > 0))

calculateEmployeeOfTheMonth(coll, startDate, endDate) ==
  LET rankings == Rank(ScanTasks(<<>>, Find(coll, startDate, endDate)))
  IN [employeeOfTheMonth |-> IF rankings # <<>> THEN rankings[1] ELSE NONE,
      topPerformers |-> Slice(rankings, 0, TOP),
      allRankings |-> rankings,
      periodStart |-> startDate,
      periodEnd |-> endDate]

\* getEmployeeOfTheMonth whose accumulators outlive the request: from the
\* second request on every task is counted twice
GetEmployeeOfTheMonth_KeepsScores(startDate, endDate) ==
  /\ results' = calculateEmployeeOfTheMonth(IF results = NONE THEN tasks ELSE tasks \o tasks,
                                            startDate, endDate)
  /\ last' = [op |-> "employee_of_month", user |-> Manager, res |-> "ok"]
  /\ UNCHANGED <<task, now, tasks, performance, performances, requests>>

GetEmployeeOfTheMonth(startDate, endDate) ==
  /\ results' = calculateEmployeeOfTheMonth(tasks, startDate, endDate)
  /\ last' = [op |-> "employee_of_month", user |-> Manager, res |-> "ok"]
  /\ UNCHANGED <<task, now, tasks, performance, performances, requests>>

\* the Task documents of the collection, with the fields the ranking reads
TaskDoc(createdAt, status, users, completedDate, estimatedHours, tracked, percentage) ==
  [createdAt |-> createdAt,
   status |-> status,
   assignedTo |-> [i \in 1..Len(users) |->
                     [user |-> users[i], role |-> IF i = 1 THEN "primary" ELSE "collaborator"]],
   dueDate |-> 2,
   completedDate |-> completedDate,
   estimatedHours |-> estimatedHours,
   timeTracking |-> IF tracked = NULL THEN <<>>
                    ELSE [i \in 1..Len(users) |-> [user |-> users[i], totalTimeSpent |-> tracked]],
   progress |-> [percentage |-> percentage]]

EveryEmployee == <<"u1", "u2", "u3", "u4", "u5", "u6">>

\* one task in every combination of what the score reads
RichTasks ==
  {TaskDoc(0, status, users, completedDate, estimatedHours, tracked, percentage) :
     status \in {COMPLETED, IN_PROGRESS, PENDING},
     users \in {<<"u1">>, <<"u2", "u1">>},
     completedDate \in {NULL, 1, 3},
     estimatedHours \in {NULL, 1},
     tracked \in {NULL, HOUR \div 2, 2 * HOUR},
     percentage \in {0, 5, 100}}

\* the tasks next to it: one completed on time by everybody, one in progress,
\* one completed late, created at the start of the period or after it
MoreTasks ==
  UNION {{TaskDoc(createdAt, COMPLETED, EveryEmployee, 1, NULL, NULL, 0),
          TaskDoc(createdAt, IN_PROGRESS, <<"u3", "u1">>, NULL, NULL, NULL, 45),
          TaskDoc(createdAt, COMPLETED, <<"u2">>, 3, NULL, NULL, 0)} :
         createdAt \in {0, 1}}

RECURSIVE Collections(_)
Collections(n) ==
  IF n = 0 THEN {<<>>}
  ELSE IF n = 1 THEN {<<>>} \cup {<<tk>> : tk \in RichTasks}
  ELSE LET shorter == Collections(n - 1)
       IN shorter \cup {Append(coll, tk) : <<coll, tk>> \in
                          {x \in shorter \X MoreTasks : Len(x[1]) = n - 1}}

InitRanking ==
  /\ now = 0
  /\ task = NONE
  /\ last = [op |-> "create", user |-> Manager, res |-> "ok"]
  /\ tasks \in Collections(MaxTasks)
  /\ results = NONE
  /\ performance = NONE
  /\ performances = <<>>
  /\ NoRequests

NextRanking == \E endDate \in {0, 1} : GetEmployeeOfTheMonth(0, endDate)
SpecRanking == InitRanking /\ [][NextRanking]_vars

\* ------------------------------------------------------------ Performance
\* The numbers of the score are kept as exact fractions num / den, den > 0;
\* on every document below the doubles of the program round to the same
\* overallScore.
Ratio(num, den) == [num |-> num, den |-> den]
Plus(x, y) == Ratio(x.num * y.den + y.num * x.den, x.den * y.den)
Times(x, y) == Ratio(x.num * y.num, x.den * y.den)
\* Math.round(x): halves go up
Round(x) == (2 * x.num + x.den) \div (2 * x.den)

\* the virtuals
taskCompletionRate(doc) ==
  IF doc.tasksAssigned > 0 THEN Ratio(doc.tasksCompleted * 100, doc.tasksAssigned)
  ELSE Ratio(0, 1)
attendanceRate(doc) ==
  IF doc.totalWorkingDays > 0 THEN Ratio(doc.attendanceDays * 100, doc.totalWorkingDays)
  ELSE Ratio(0, 1)
salesConversionRate(doc) ==
  IF doc.salesCalls > 0 THEN Ratio(doc.salesConversions * 100, doc.salesCalls)
  ELSE Ratio(0, 1)

\* the sum divided by the sum of the weights applied
WeightedScore_Renormalised(doc) ==
  LET onTimeRate == IF doc.tasksAssigned > 0
                    THEN Ratio((doc.tasksAssigned - doc.tasksOverdue) * 100, doc.tasksAssigned)
                    ELSE Ratio(100, 1)
      s3 == Plus(Plus(Times(taskCompletionRate(doc), Ratio(3, 10)),
                      Times(attendanceRate(doc), Ratio(1, 4))),
                 Times(onTimeRate, Ratio(1, 5)))
  IN IF doc.salesCalls > 0
     THEN Plus(s3, Times(salesConversionRate(doc), Ratio(1, 4)))
     ELSE Times(s3, Ratio(4, 3))

\* the on-time rate weighted like the attendance rate
WeightedScore_OnTimeQuarter(doc) ==
  LET onTimeRate == IF doc.tasksAssigned > 0
                    THEN Ratio((doc.tasksAssigned - doc.tasksOverdue) * 100, doc.tasksAssigned)
                    ELSE Ratio(100, 1)
      s3 == Plus(Plus(Times(taskCompletionRate(doc), Ratio(3, 10)),
                      Times(attendanceRate(doc), Ratio(1, 4))),
                 Times(onTimeRate, Ratio(1, 4)))
  IN IF doc.salesCalls > 0
     THEN Plus(s3, Times(salesConversionRate(doc), Ratio(1, 4)))
     ELSE s3

\* calculateOverallScore up to "this.overallScore = Math.round(score)": the
\* value of score (weightSum is summed next to it and never read)
WeightedScore(doc) ==
  LET s1 == Times(taskCompletionRate(doc), Ratio(3, 10))
      s2 == Plus(s1, Times(attendanceRate(doc), Ratio(1, 4)))
      onTimeRate == IF doc.tasksAssigned > 0
                    THEN Ratio((doc.tasksAssigned - doc.tasksOverdue) * 100, doc.tasksAssigned)
                    ELSE Ratio(100, 1)
      s3 == Plus(s2, Times(onTimeRate, Ratio(1, 5)))
  IN IF doc.salesCalls > 0
     THEN Plus(s3, Times(salesConversionRate(doc), Ratio(1, 4)))
     ELSE s3

\* the if / else if chain on this.overallScore
GradeOf(overallScore) ==
  IF overallScore >= 95 THEN "A+"
  ELSE IF overallScore >= 90 THEN "A"
  ELSE IF overallScore >= 85 THEN "B+"
  ELSE IF overallScore >= 80 THEN "B"
  ELSE IF overallScore >= 75 THEN "C+"
  ELSE IF overallScore >= 70 THEN "C"
  ELSE IF overallScore >= 60 THEN "D"
  ELSE "F"

\* the grade taken from the score before it is rounded
calculateOverallScore_GradeOfRaw(doc) ==
  LET score == WeightedScore(doc)
  IN [doc EXCEPT !.overallScore = Round(score),
                 !.grade = GradeOf(score.num \div score.den)]

calculateOverallScore(doc) ==
  LET overallScore == Round(WeightedScore(doc))
  IN [doc EXCEPT !.overallScore = overallScore, !.grade = GradeOf(overallScore)]

\* pre('save'): if (this.isModified()) this.calculateOverallScore()
PreSavePerformance(doc, isModified) ==
  IF isModified THEN calculateOverallScore(doc) ELSE doc

\* doc.save() of the Performance document; it is modified until it has been
\* saved once
SavePerformance ==
  /\ performance' = PreSavePerformance(performance, last.op # "save_performance")
  /\ last' = [op |-> "save_performance", user |-> Manager, res |-> "ok"]
  /\ UNCHANGED <<task, now, tasks, results, performances, requests>>

\* the counts a Performance document is created with
Counts == {0, 1, 8, 9}

\* new Performance({...}): the metrics of the period, overallScore and grade
\* at their schema defaults
NewPerformance(assigned, completed, overdue, workingDays, attended, calls, conversions) ==
  [tasksAssigned |-> assigned, tasksCompleted |-> completed, tasksOverdue |-> overdue,
   totalWorkingDays |-> workingDays, attendanceDays |-> attended,
   salesCalls |-> calls, salesConversions |-> conversions,
   overallScore |-> 0, grade |-> "C"]

InitPerformance ==
  /\ now = 0
  /\ task = NONE
  /\ last = [op |-> "create", user |-> Manager, res |-> "ok"]
  /\ tasks = <<>>
  /\ results = NONE
  /\ performances = <<>>
  /\ NoRequests
  /\ \E assigned, completed, overdue, workingDays, attended, calls, conversions \in Counts :
       /\ completed <= assigned /\ overdue <= assigned
       /\ attended <= workingDays
       /\ conversions <= calls
       /\ performance = NewPerformance(assigned, completed, overdue, workingDays,
                                       attended, calls, conversions)

NextPerformance == SavePerformance
SpecPerformance == InitPerformance /\ [][NextPerformance]_vars

\* ------------------------------------------------- Performance requests
Clients == {"r1", "r2"}     \* two requests, processed concurrently
Idle == [pc |-> "idle"]
Done(res) == [pc |-> "done", res |-> res]

\* what gatherPerformanceData reads from the Task, Attendance and SalesCall
\* collections for an employee and a period
Gathered ==
  {NewPerformance(1, 1, 0, 1, 1, 0, 0), NewPerformance(8, 1, 1, 9, 8, 1, 1)}

\* new Performance({employee, period, startDate, endDate, ...performanceData})
NewRecord(employeeId, period, startDate, endDate, performanceData) ==
  [employee |-> employeeId, period |-> period, startDate |-> startDate,
   endDate |-> endDate, reviewedBy |-> ABSENT, reviewDate |-> NULL] @@ performanceData

\* Performance.findOne({employee, period, startDate, endDate}): the index of
\* the first match, 0 for null
FindOne(coll, employeeId, period, startDate, endDate) ==
  LET hits == {i \in 1..Len(coll) :
                 /\ coll[i].employee = employeeId /\ coll[i].period = period
                 /\ coll[i].startDate = startDate /\ coll[i].endDate = endDate}
  IN IF hits = {} THEN 0 ELSE CHOOSE i \in hits : \A j \in hits : i <= j

Step(op, r, res) == last' = [op |-> op, user |-> r, res |-> res]

\* calculatePerformance up to "new Performance({...})": the date check, the
\* look-up of an existing record, the gathering of the data
CalculateRead(r, employeeId, period, startDate, endDate, performanceData) ==
  /\ requests[r].pc = "idle"
  /\ IF startDate >= endDate
     THEN requests' = [requests EXCEPT ![r] = Done("bad_request")]
          /\ Step("calculate", r, "bad_request")
     ELSE IF FindOne(performances, employeeId, period, startDate, endDate) # 0
     THEN requests' = [requests EXCEPT ![r] = Done("conflict")]
          /\ Step("calculate", r, "conflict")
     ELSE requests' = [requests EXCEPT ![r] =
                         [pc |-> "save",
                          doc |-> NewRecord(employeeId, period, startDate, endDate,
                                            performanceData)]]
          /\ Step("calculate", r, "reading")
  /\ UNCHANGED <<task, now, tasks, results, performance, performances>>

\* calculatePerformance from "await performance.save()": the pre('save')
\* hook on the new document, then the insert; no index of the schema is
\* unique, so the insert is never refused
CalculateSave(r) ==
  /\ requests[r].pc = "save"
  /\ performances' = Append(performances, PreSavePerformance(requests[r].doc, TRUE))
  /\ requests' = [requests EXCEPT ![r] = Done("created")]
  /\ Step("calculate", r, "created")
  /\ UNCHANGED <<task, now, tasks, results, performance>>

\* the counters a PUT /api/performance/:id body sets, one key each
CounterFields ==
  {"tasksCompleted", "tasksAssigned", "tasksOverdue", "attendanceDays",
   "totalWorkingDays", "salesCalls", "salesConversions"}
CounterBodies == {[field |-> f, value |-> v] : f \in CounterFields, v \in {0, 1}}

\* Performance.findByIdAndUpdate(id, {...sanitizedData, reviewedBy,
\* reviewDate}): the keys are written to the stored record, no save hook runs
UpdateRecord(doc, body, reqUser, t) ==
  [doc EXCEPT ![body.field] = body.value, !.reviewedBy = reqUser, !.reviewDate = t]

\* isAdminOrPM, then updatePerformance; id is the position of the record
UpdatePerformance(reqUser, id, body) ==
  /\ IF Role(reqUser) \notin {"admin", "project_manager"}
     THEN Step("update_performance", reqUser, "forbidden") /\ UNCHANGED performances
     ELSE IF id > Len(performances)
     THEN Step("update_performance", reqUser, "not_found") /\ UNCHANGED performances
     ELSE /\ performances' =
               [performances EXCEPT ![id] = UpdateRecord(performances[id], body, reqUser, now)]
          /\ Step("update_performance", reqUser, "ok")
  /\ UNCHANGED <<task, now, tasks, results, performance, requests>>

InitRecords ==
  /\ now = 0
  /\ task = NONE
  /\ last = [op |-> "create", user |-> Manager, res |-> "ok"]
  /\ tasks = <<>>
  /\ results = NONE
  /\ performance = NONE
  /\ performances = <<>>
  /\ requests = [r \in Clients |-> Idle]

\* POST /api/performance/calculate asked by the clients rs
CalculateReads(rs) ==
  \E r \in rs, employeeId \in Users, endDate \in {0, 1}, data \in Gathered :
    CalculateRead(r, employeeId, "monthly", 0, endDate, data)
CalculateSaves(rs) == \E r \in rs : CalculateSave(r)
\* PUT /api/performance/:id
Updates(reqs) ==
  \E reqUser \in reqs, id \in 1..Cardinality(Clients), body \in CounterBodies :
    UpdatePerformance(reqUser, id, body)

\* two calculate requests, interleaved
NextRecords == CalculateReads(Clients) \/ CalculateSaves(Clients)
SpecRecords == InitRecords /\ [][NextRecords]_vars

\* one record is calculated, then reviewed: the manager and an employee send
\* updates of its counters
NextReview == CalculateReads({"r1"}) \/ CalculateSaves({"r1"}) \/ Updates({Manager, "u1"})
SpecReview == InitRecords /\ [][NextReview]_vars

\* ------------------------------------------- task requests, interleaved
\* A handler awaits Task.findById, runs the method on the document it got and
\* awaits save(); another request can be served between the two.  save()
\* sends what the request changed, not the document: a $set per changed
\* field, a $push per array pushed to.  The stored document carries the
\* versionKey (the schema does not disable it): a write that sets a field
\* of an existing array element, or pushes into an array inside one, matches
\* only the version it has read, and a write that pushes increments it.
\* (No write of startTimeTracking or stopTimeTracking sets a field of a
\* ledger entry and pushes only to a top-level array.)

\* what the handler makes of the document it has read
Run(op, doc, userId, t) ==
  IF op = "start" THEN startTimeTracking(doc, doc, userId, t)
  ELSE stopTimeTracking(doc, doc, userId, "", t)

\* the elements pushed to an array
Pushed(before, after) == SubSeq(after, Len(before) + 1, Len(after))

\* the write sets a field of a ledger entry it has read
SetsEntry(before, after) ==
  \E i \in 1..Len(before.timeTracking) : after.timeTracking[i] # before.timeTracking[i]

PushesAny(before, after) ==
  \/ Len(after.timeTracking) > Len(before.timeTracking)
  \/ Len(after.statusHistory) > Len(before.statusHistory)
  \/ \E i \in 1..Len(before.timeTracking) :
       Len(after.timeTracking[i].sessions) > Len(before.timeTracking[i].sessions)

\* $set of timeTracking.<i>.<field> for the fields changed, $push of the new
\* sessions, on the stored entry at that position
MergeEntry(stored, before, after) ==
  [stored EXCEPT
     !.isActive = IF after.isActive # before.isActive THEN after.isActive ELSE @,
     !.currentSessionStart =
        IF after.currentSessionStart # before.currentSessionStart
        THEN after.currentSessionStart ELSE @,
     !.totalTimeSpent =
        IF after.totalTimeSpent # before.totalTimeSpent THEN after.totalTimeSpent ELSE @,
     !.sessions = @ \o Pushed(before.sessions, after.sessions)]

\* updateOne({_id}, delta) on the stored document
ApplyDelta(stored, before, after) ==
  [stored EXCEPT
     !.status = IF after.status # before.status THEN after.status ELSE @,
     !.completedDate =
        IF after.completedDate # before.completedDate THEN after.completedDate ELSE @,
     !.statusHistory = @ \o Pushed(before.statusHistory, after.statusHistory),
     !.timeTracking =
        [i \in 1..Len(@) |->
           IF i <= Len(before.timeTracking)
           THEN MergeEntry(@[i], before.timeTracking[i], after.timeTracking[i])
           ELSE @[i]]
          \o Pushed(before.timeTracking, after.timeTracking),
     !.version = IF PushesAny(before, after) THEN @ + 1 ELSE @]

\* await Task.findById(id): the request r of userId gets the stored task; the
\* responses of the requests answered before are gone
FindTask(r, op, userId) ==
  /\ requests[r].pc # "loaded"
  /\ \/ op = "stop"
     \/ OpenOrClosed(task) < MaxSessions
     \/ startTimeTracking(task, task, userId, now).err # "ok"
  /\ requests' = [s \in Clients |->
                    IF s = r THEN [pc |-> "loaded", op |-> op, user |-> userId, doc |-> task]
                    ELSE IF requests[s].pc = "done" THEN Idle
                    ELSE requests[s]]
  /\ last' = [op |-> op, user |-> userId, res |-> "reading"]
  /\ UNCHANGED <<task, now, reports>>

\* the rest of startTask / stopTask: the assignment check, the method on the
\* document read, save() against the task as it is stored now, the response
SaveTask(r) ==
  /\ requests[r].pc = "loaded"
  /\ LET q == requests[r]
         o == Run(q.op, q.doc, q.user, now)
         res == IF ~IsAssigned(q.doc, q.user) THEN "forbidden"
                ELSE IF o.err # "ok" THEN o.err
                ELSE IF SetsEntry(q.doc, o.saved) /\ task.version # q.doc.version
                THEN "version_error"
                ELSE "ok"
     IN /\ task' = IF res = "ok" THEN ApplyDelta(task, q.doc, o.saved) ELSE task
        /\ requests' = [requests EXCEPT ![r] =
                          [pc |-> "done", op |-> q.op, user |-> q.user, res |-> res,
                           doc |-> q.doc,
                           alone |-> IF IsAssigned(q.doc, q.user) THEN o.err ELSE "forbidden",
                           made |-> IF o.err = "ok" /\ IsAssigned(q.doc, q.user)
                                    THEN EntryOf(o.saved, q.user) ELSE NONE,
                           wroteLast |-> \E s \in Clients \ {r} : requests[s].pc = "done"]]
        /\ last' = [op |-> q.op, user |-> q.user, res |-> res]
  /\ UNCHANGED <<now, reports>>

\* a task created for two assignees, version 0, no request being served
InitInterleaved ==
  /\ now = 0
  /\ task = NewTask(<<[user |-> "u1", role |-> "primary"],
                      [user |-> "u2", role |-> "collaborator"]>>, Manager, now + 1)
              @@ [version |-> 0]
  /\ last = [op |-> "create", user |-> Manager, res |-> "ok"]
  /\ NoReports
  /\ requests = [r \in Clients |-> Idle]

NextInterleaved ==
  \/ \E r \in Clients, userId \in Users : FindTask(r, "start", userId)
  \/ \E r \in Clients : FindTask(r, "stop", "u1")
  \/ \E r \in Clients : SaveTask(r)
  \/ Tick
SpecInterleaved == InitInterleaved /\ [][NextInterleaved]_vars

\* -------------------------------------------------------------- claims
\* the step is a request to handler op about user userId (every handler
\* leaves its name in last, Tick leaves "tick")
Did(op, userId) == last'.op = op /\ last'.user = userId

C2_SecondStartFails ==
  [][\A u \in Users :
       (last.op = "start" /\ last.user = u /\ last.res = "ok" /\ Did("start", u))
         => (last'.res = "already_active" /\ task' = task)]_vars

\* C3: a successful start(u) leaves u's ledger entry active with
\* currentSessionStart set, turns a pending task in_progress and leaves any
\* other status alone.
C3_StartActivates ==
  [][\A u \in Users :
       (Did("start", u) /\ last'.res = "ok")
         => /\ HasEntry(task', u)
            /\ EntryOf(task', u).isActive
            /\ EntryOf(task', u).currentSessionStart # NULL
            /\ task'.status = IF task.status = PENDING THEN IN_PROGRESS ELSE task.status]_vars

\* the assigned user has nothing to stop: no ledger entry, or an inactive one
NothingToStop(doc, userId) ==
  IsAssigned(doc, userId) /\ (~HasEntry(doc, userId) \/ ~EntryOf(doc, userId).isActive)

C5_StartThenStop ==
  [][\A u \in Users :
       (last.op = "start" /\ last.user = u /\ last.res = "ok" /\ Did("stop", u))
         => /\ last'.res = "ok"
            /\ HasEntry(task, u) /\ HasEntry(task', u)
            /\ LET before == EntryOf(task, u)
                   after == EntryOf(task', u)
               IN /\ Len(after.sessions) = Len(before.sessions) + 1
                  /\ LET s == after.sessions[Len(after.sessions)]
                     IN /\ s.duration = s.endTime - s.startTime
                        /\ s.duration >= 0
                        /\ after.totalTimeSpent = before.totalTimeSpent + s.duration
                  /\ ~after.isActive
                  /\ after.currentSessionStart = NULL]_vars

\* C6: remove(userId) on a roster of exactly one assignee, asked for by a
\* requester who may manage the task, fails with the last-assignee error for
\* every userId and leaves the task unchanged.
C6_LastAssigneeStays ==
  [][\A userId \in Users :
       (Did("remove", userId) /\ last'.res # "forbidden" /\ Len(task.assignedTo) = 1)
         => (last'.res = "last_assignee" /\ task' = task)]_vars

C6_Witness ==
  /\ last.op = "remove" /\ last.res = "last_assignee"
  /\ Len(task.assignedTo) = 1
  /\ ~IsAssigned(task, last.user)

\* C7: the persisted task has at least one assignee in every reachable state.
C7_RosterNeverEmpty == Len(task.assignedTo) >= 1

\* a request that ended in doc.save() without setting the status itself
PlainSave == last'.op \in {"start", "stop", "comment"} /\ last'.res = "ok"
Completion == last'.op = "complete" /\ last'.res = "ok"

\* C8: a save of a pending task whose dueDate has passed persists it as
\* overdue; a save of an overdue task changes neither the status nor the
\* history (the transition is not applied again); a save of a completed or
\* cancelled task never persists it as overdue.
C8_OverdueOnSave ==
  [][/\ (PlainSave /\ task.status = PENDING /\ now > task.dueDate)
          => task'.status = OVERDUE
     /\ (PlainSave /\ task.status = OVERDUE)
          => (task'.status = OVERDUE /\ task'.statusHistory = task.statusHistory)
     /\ ((PlainSave \/ Completion) /\ task.status \in {COMPLETED, CANCELLED})
          => task'.status # OVERDUE]_vars

C8_Witness ==
  /\ last.op = "start" /\ last.res = "ok"
  /\ task.status = OVERDUE
  /\ task.statusHistory = <<IN_PROGRESS>>
  /\ now > task.dueDate

\* C9: after every write the persisted status is overdue exactly when the
\* dueDate has passed and the status is neither completed nor cancelled.
C9_OverdueIffPastDue ==
  (last.op # "tick" /\ last.res = "ok")
    => ((task.status = OVERDUE)
          <=> (now > task.dueDate /\ task.status \notin {COMPLETED, CANCELLED}))

\* C10: every change of the persisted status appends exactly one
\* statusHistory entry, which carries the new status.
C10_StatusChangeRecorded ==
  [][task'.status # task.status
       => task'.statusHistory = Append(task.statusHistory, task'.status)]_vars

\* C11: a step that brings the task to status completed, by the complete
\* action or by a status update, leaves completedDate set, no ledger entry
\* active, every entry that was active closed by one more session with note
\* "Task completed" whose duration was added to totalTimeSpent, and the
\* progress at phase 'completed' and 100 percent.
C11_CompletedSideEffects ==
  [][(task.status # COMPLETED /\ task'.status = COMPLETED)
       => /\ task'.completedDate # NULL
          /\ task'.progress = [currentPhase |-> "completed", percentage |-> 100]
          /\ Len(task'.timeTracking) = Len(task.timeTracking)
          /\ \A i \in 1..Len(task.timeTracking) :
               LET before == task.timeTracking[i]
                   after == task'.timeTracking[i]
               IN /\ ~after.isActive
                  /\ before.isActive
                       => /\ Len(after.sessions) = Len(before.sessions) + 1
                          /\ LET s == after.sessions[Len(after.sessions)]
                             IN /\ s.notes = "Task completed"
                                /\ after.totalTimeSpent = before.totalTimeSpent + s.duration]_vars

\* C12: add(userId, role) asked for by a requester who may manage the task
\* fails with the already-assigned error and changes nothing when userId is
\* in the roster; otherwise it appends one roster entry for userId with the
\* role of the request (collaborator when the request names none) and one
\* ledger entry for userId with totalTimeSpent 0, no sessions and isActive
\* false, and leaves every other roster and ledger entry as it was.
C12_AddAppendsOne ==
  [][\A userId \in Users, as \in BodyRoles :
       AddAssignee(Manager, userId, as)
         => IF IsAssigned(task, userId)
            THEN last'.res = "already_assigned" /\ task' = task
            ELSE /\ last'.res = "ok"
                 /\ task'.assignedTo =
                      task.assignedTo \o
                        <<[user |-> userId,
                           role |-> IF as = ABSENT THEN "collaborator" ELSE as]>>
                 /\ task'.timeTracking =
                      task.timeTracking \o
                        <<[user |-> userId, totalTimeSpent |-> 0, sessions |-> <<>>,
                           isActive |-> FALSE, currentSessionStart |-> NULL]>>]_vars

\* an assignee added with no role in the request, next to an assignee whose
\* session is open
C12_Witness ==
  /\ last.op = "add" /\ last.res = "ok"
  /\ Len(task.assignedTo) = 2
  /\ task.assignedTo[2] = [user |-> last.user, role |-> "collaborator"]
  /\ \E i \in 1..Len(task.timeTracking) : task.timeTracking[i].isActive

\* C13: a successful remove(userId) leaves no roster entry and no ledger
\* entry for userId, leaves the roster and ledger entries of every other
\* user as they were and in their order, and leaves no active ledger entry
\* for a user who is not an assignee.
C13_RemoveDeletesBoth ==
  [][\A userId \in Users :
       (Did("remove", userId) /\ last'.res = "ok")
         => /\ Len(task.assignedTo) >= 2
            /\ ~IsAssigned(task', userId)
            /\ ~HasEntry(task', userId)
            /\ task'.assignedTo = SelectSeq(task.assignedTo, LAMBDA a : a.user # userId)
            /\ task'.timeTracking = SelectSeq(task.timeTracking, LAMBDA tt : tt.user # userId)
            /\ \A i \in 1..Len(task'.timeTracking) :
                 task'.timeTracking[i].isActive
                   => IsAssigned(task', task'.timeTracking[i].user)]_vars

\* a member was removed and the remaining assignee keeps a ledger entry
\* with a closed session
C13_Witness ==
  /\ last.op = "remove" /\ last.res = "ok"
  /\ last.user \in Users
  /\ Len(task.assignedTo) = 1
  /\ ~IsAssigned(task, last.user)
  /\ \E i \in 1..Len(task.timeTracking) : task.timeTracking[i].sessions # <<>>

\* the tasks of the period the ranking was computed for
InPeriod(res) ==
  SelectSeq(tasks, LAMBDA tk : /\ tk.createdAt >= res.periodStart
                               /\ tk.createdAt <= res.periodEnd
                               /\ tk.status \in {COMPLETED, IN_PROGRESS})

RECURSIVE Total(_)
Total(nums) == IF nums = <<>> THEN 0 ELSE nums[1] + Total(Tail(nums))

\* the tasks of found that userId is assigned to
TasksOf(found, userId) == SelectSeq(found, LAMBDA tk : IsAssigned(tk, userId))

\* the milliseconds userId tracked on the task
TrackedOn(tk, userId) ==
  IF HasEntry(tk, userId) THEN EntryOf(tk, userId).totalTimeSpent ELSE 0

\* the points of a (task, assignee) pair before the progress bonus, as stated
StatedPoints(tk, userId) ==
  IF tk.status = COMPLETED
  THEN 50 + (IF tk.completedDate # NULL /\ tk.completedDate <= tk.dueDate THEN 30 ELSE 10)
          + (IF tk.estimatedHours # NULL /\ TrackedOn(tk, userId) < tk.estimatedHours * HOUR
             THEN 20 ELSE 0)
  ELSE IF tk.status = IN_PROGRESS THEN 10 ELSE 0

\* the progress bonus the ranking adds for a task
RoundedBonus(tk) ==
  IF tk.progress.percentage > 0 THEN (tk.progress.percentage + 5) \div 10 ELSE 0

\* C14: the totalScore of a ranked employee is the sum, over the tasks of the
\* period the employee is assigned to, of 50 + (30 if completedDate <= dueDate,
\* else 10) + (20 if estimatedHours is set and the employee's tracked hours are
\* below it) for a completed task and of 10 for a task in progress, plus the
\* progress bonus of each task.
C14_ScoreIsSumOfPoints ==
  results # NONE
    => \A i \in 1..Len(results.allRankings) :
         LET r == results.allRankings[i]
             mine == TasksOf(InPeriod(results), r.user)
         IN r.totalScore =
              Total([k \in 1..Len(mine) |->
                       StatedPoints(mine[k], r.user) + RoundedBonus(mine[k])])

\* C15: the progress bonus of a (task, assignee) pair is floor(percentage / 10)
\* when the percentage is above 0 and nothing otherwise, and only the pairs
\* with a percentage above 0 count in the progress average.
C15_BonusIsFloorOfTenth ==
  results # NONE
    => \A i \in 1..Len(results.allRankings) :
         LET r == results.allRankings[i]
             mine == TasksOf(InPeriod(results), r.user)
         IN /\ r.totalScore =
                 Total([k \in 1..Len(mine) |->
                          ScorePair(NewScore(r.user), mine[k], r.user).totalScore
                            - RoundedBonus(mine[k])
                            + (IF mine[k].progress.percentage > 0
                               THEN mine[k].progress.percentage \div 10 ELSE 0)])
            /\ r.progressCount =
                 Total([k \in 1..Len(mine) |->
                          IF mine[k].progress.percentage > 0 THEN 1 ELSE 0])

\* the employees assigned to a task of the period with the given status
AssignedWith(res, status) ==
  {u \in Employees : \E i \in 1..Len(InPeriod(res)) :
     InPeriod(res)[i].status = status /\ IsAssigned(InPeriod(res)[i], u)}

\* C16: allRankings holds, once each, exactly the employees assigned to a
\* completed task of the period; employeeOfTheMonth is its first element, and
\* null exactly when it is empty.
C16_RankedIffCompleted ==
  results # NONE
    => LET all == results.allRankings
       IN /\ {all[i].user : i \in 1..Len(all)} = AssignedWith(results, COMPLETED)
          /\ Len(all) = Cardinality(AssignedWith(results, COMPLETED))
          /\ results.employeeOfTheMonth = IF all = <<>> THEN NONE ELSE all[1]

\* an employee with a task in progress only is left out of a ranking that
\* is not empty
C16_Witness ==
  /\ results # NONE
  /\ results.allRankings # <<>>
  /\ AssignedWith(results, IN_PROGRESS) \ AssignedWith(results, COMPLETED) # {}

\* the assignees in the order the scan of the tasks meets them
RECURSIVE Encounters(_)
Encounters(found) ==
  IF found = <<>> THEN <<>>
  ELSE [i \in 1..Len(found[1].assignedTo) |-> found[1].assignedTo[i].user]
         \o Encounters(Tail(found))

FirstSeen(found, userId) ==
  CHOOSE i \in 1..Len(Encounters(found)) :
    /\ Encounters(found)[i] = userId
    /\ \A j \in 1..(i - 1) : Encounters(found)[j] # userId

\* C17: allRankings is in order of totalScore, highest first; employees of
\* equal totalScore are in the order the scan first met them; topPerformers
\* is the first min(5, n) elements of allRankings.
C17_SortedStableTopFive ==
  results # NONE
    => LET all == results.allRankings
           found == InPeriod(results)
       IN /\ \A i, j \in 1..Len(all) :
               i < j => \/ all[i].totalScore > all[j].totalScore
                        \/ /\ all[i].totalScore = all[j].totalScore
                           /\ FirstSeen(found, all[i].user) < FirstSeen(found, all[j].user)
          /\ results.topPerformers =
               [i \in 1..(IF Len(all) < 5 THEN Len(all) ELSE 5) |-> all[i]]

\* six ranked employees, the last two of equal score
C17_Witness ==
  /\ results # NONE
  /\ Len(results.allRankings) = 6
  /\ Len(results.topPerformers) = 5
  /\ results.allRankings[5].totalScore = results.allRankings[6].totalScore
  /\ results.allRankings[1].totalScore > results.allRankings[6].totalScore

StatedDen(doc) ==
  (IF doc.tasksAssigned > 0 THEN doc.tasksAssigned ELSE 1)
    * (IF doc.totalWorkingDays > 0 THEN doc.totalWorkingDays ELSE 1)
    * (IF doc.salesCalls > 0 THEN doc.salesCalls ELSE 1)

StatedNum(doc) ==
  LET a == IF doc.tasksAssigned > 0 THEN doc.tasksAssigned ELSE 1
      w == IF doc.totalWorkingDays > 0 THEN doc.totalWorkingDays ELSE 1
      s == IF doc.salesCalls > 0 THEN doc.salesCalls ELSE 1
  IN (IF doc.tasksAssigned > 0 THEN 30 * doc.tasksCompleted ELSE 0) * w * s
     + (IF doc.totalWorkingDays > 0 THEN 25 * doc.attendanceDays ELSE 0) * a * s
     + (IF doc.tasksAssigned > 0 THEN 20 * (doc.tasksAssigned - doc.tasksOverdue) ELSE 20)
         * w * s
     + (IF doc.salesCalls > 0 THEN 25 * doc.salesConversions ELSE 0) * a * w

Saved_Performance == last.op = "save_performance"

C20_GradeFromRoundedScore ==
  Saved_Performance
    => LET n == performance.overallScore
       IN performance.grade =
            CASE n >= 95 -> "A+"
              [] n >= 90 /\ n < 95 -> "A"
              [] n >= 85 /\ n < 90 -> "B+"
              [] n >= 80 /\ n < 85 -> "B"
              [] n >= 75 /\ n < 80 -> "C+"
              [] n >= 70 /\ n < 75 -> "C"
              [] n >= 60 /\ n < 70 -> "D"
              [] n < 60 -> "F"

\* a weighted sum below 95 that rounds to 95 is graded A+
C20_Witness ==
  /\ Saved_Performance
  /\ performance.overallScore = 95
  /\ StatedNum(performance) < 95 * StatedDen(performance)
  /\ performance.grade = "A+"

\* the overallScore of a record is its weighted sum rounded, halves up
ScoreMatches(doc) ==
  /\ (2 * doc.overallScore - 1) * StatedDen(doc) <= 2 * StatedNum(doc)
  /\ 2 * StatedNum(doc) < (2 * doc.overallScore + 1) * StatedDen(doc)

\* the grade of a record is the one its overallScore earns
GradeMatches(doc) ==
  LET n == doc.overallScore
  IN \/ n >= 95 /\ doc.grade = "A+"
     \/ n >= 90 /\ n < 95 /\ doc.grade = "A"
     \/ n >= 85 /\ n < 90 /\ doc.grade = "B+"
     \/ n >= 80 /\ n < 85 /\ doc.grade = "B"
     \/ n >= 75 /\ n < 80 /\ doc.grade = "C+"
     \/ n >= 70 /\ n < 75 /\ doc.grade = "C"
     \/ n >= 60 /\ n < 70 /\ doc.grade = "D"
     \/ n < 60 /\ doc.grade = "F"

ConsistentCounters(doc) ==
  /\ 0 <= doc.tasksCompleted /\ doc.tasksCompleted <= doc.tasksAssigned
  /\ 0 <= doc.tasksOverdue /\ doc.tasksOverdue <= doc.tasksAssigned
  /\ 0 <= doc.attendanceDays /\ doc.attendanceDays <= doc.totalWorkingDays
  /\ 0 <= doc.salesConversions /\ doc.salesConversions <= doc.salesCalls

\* C30: a saved Performance document with consistent counters and no sales
\* calls has 0 <= overallScore <= 75 and a grade no better than C+; with
\* sales calls its overallScore is within 0..100.
C30_ScoreWithinRange ==
  (Saved_Performance /\ ConsistentCounters(performance))
    => /\ performance.overallScore >= 0
       /\ performance.overallScore <= 100
       /\ performance.salesCalls = 0
            => /\ performance.overallScore <= 75
               /\ performance.grade \in {"C+", "C", "D", "F"}

\* everything completed on time, every day attended, no sales calls: 75, C+
C30_Witness ==
  /\ Saved_Performance
  /\ performance.salesCalls = 0
  /\ performance.tasksAssigned > 0
  /\ performance.tasksCompleted = performance.tasksAssigned
  /\ performance.tasksOverdue = 0
  /\ performance.totalWorkingDays > 0
  /\ performance.attendanceDays = performance.totalWorkingDays
  /\ performance.overallScore = 75
  /\ performance.grade = "C+"

\* C25: a request refused for a domain error (start by a non-assignee, start
\* while already active, stop with no ledger entry, stop with no active
\* session, add of an already assigned user, remove of the last assignee) is
\* answered with a 4xx status, never a 5xx.
C25_DomainErrorsAre4xx ==
  (last.op \in {"start", "stop", "add", "remove"} /\ last.res # "ok")
    => (StatusCode(last.op, last.res) >= 400 /\ StatusCode(last.op, last.res) <= 499)

\* C26: a completed task has no active tracking session: status completed
\* implies every ledger entry has isActive false, also after start requests
\* on the completed task.
C26_CompletedHasNoActiveSession ==
  task.status = COMPLETED
    => \A i \in 1..Len(task.timeTracking) : ~task.timeTracking[i].isActive

\* C27: every ledger entry belongs to a user of the roster, and no user has
\* two ledger entries.
C27_LedgerFollowsRoster ==
  /\ \A i \in 1..Len(task.timeTracking) : IsAssigned(task, task.timeTracking[i].user)
  /\ \A i, j \in 1..Len(task.timeTracking) :
       task.timeTracking[i].user = task.timeTracking[j].user => i = j

\* a user was removed and added again: a single zeroed entry, after another
\* user's entry
C27_Witness ==
  /\ last.op = "add" /\ last.res = "ok"
  /\ Len(task.timeTracking) = 2
  /\ task.timeTracking[2] = FreshEntry(last.user)
  /\ task.timeTracking[1].user # last.user
  /\ Len(task.assignedTo) = 2
  /\ task.assignedTo[2].user = "u1"

\* C28: after the complete action progress stays terminal: while the status
\* is completed, progress.percentage is 100 and progress.currentPhase is
\* 'completed', whatever updateProgress, start, stop, addAssignee or
\* removeAssignee calls follow.  (Checked where complete is the only way to
\* the status completed.)
C28_ProgressStaysTerminal ==
  task.status = COMPLETED
    => (task.progress.percentage = 100 /\ task.progress.currentPhase = "completed")

\* C29: status completed is absorbing for every operation other than an
\* explicit status update: no start, stop, complete, addAssignee,
\* removeAssignee, updateProgress, addBlocker, resolveBlocker or overdue
\* recomputation changes the status of a completed task, and a repeated
\* complete appends no statusHistory entry.
C29_CompletedIsAbsorbing ==
  [][(task.status = COMPLETED /\ last'.op # "update")
       => /\ task'.status = COMPLETED
          /\ last'.op = "complete" => task'.statusHistory = task.statusHistory]_vars

\* a start answered on a task that is completed and past its dueDate
C29_Witness ==
  /\ task.status = COMPLETED
  /\ last.op = "start" /\ last.res = "ok"
  /\ now > task.dueDate

\* both requests have been answered, and each had read the task before the
\* other one wrote
BothAnswered(r, s) ==
  /\ r # s
  /\ requests[r].pc = "done" /\ requests[s].pc = "done"
  \* on the task it had read, each request passes the checks of its method
  /\ requests[r].alone = "ok" /\ requests[s].alone = "ok"

\* C23: two start requests of two different assigned users, interleaved in
\* any way, both succeed, and the stored task then has an active ledger entry
\* for each of the two users, also when neither had an entry before.
C23_BothStartsKept ==
  \A r, s \in Clients :
    (/\ BothAnswered(r, s)
     /\ requests[r].op = "start" /\ requests[s].op = "start"
     /\ requests[r].user # requests[s].user)
      => /\ requests[r].res = "ok" /\ requests[s].res = "ok"
         /\ \A userId \in {requests[r].user, requests[s].user} :
              HasEntry(task, userId) /\ EntryOf(task, userId).isActive

\* C24: two start requests, or two stop requests, of the same user that both
\* read the same stored task before either writes both succeed, no version
\* check rejects one, and the user's stored ledger entry is the one made by
\* the request that wrote last.
C24_LastWriteWins ==
  \A r, s \in Clients :
    (/\ BothAnswered(r, s)
     /\ requests[r].op = requests[s].op
     /\ requests[r].user = requests[s].user
     /\ requests[r].doc = requests[s].doc
     /\ requests[s].wroteLast)
      => /\ requests[r].res = "ok" /\ requests[s].res = "ok"
         /\ EntryOf(task, requests[s].user) = requests[s].made

====
